---- MODULE Spec2Model ----
(***************************************************************************)
(* A model of the logic-programming layer (src/logic.py) and of the        *)
(* evaluator it is built on (src/scheme.py).                               *)
(*                                                                         *)
(* Terms.  A Scheme value is a tuple whose first element is its tag:       *)
(*   <<"s", name>>      a symbol; name is the sequence of its characters   *)
(*   <<"nil">>          the empty list                                     *)
(*   <<"p", first, second>>   a Pair                                       *)
(*   <<"n", k>>         the integer k                                      *)
(*   <<"b", t>>         the boolean t                                      *)
(*   <<"None">>         Python's None, the value of a form with no value   *)
(*   <<"prim", name>>   a PrimitiveProcedure                               *)
(*   <<"lambda", formals, body, env>>   a LambdaProcedure                  *)
(*   <<"mu", formals, body>>            a MuProcedure                      *)
(* Symbol names are kept character by character because the program looks  *)
(* at them as strings: isvar tests the first character and label appends   *)
(* '_' and the decimal digits of an integer.                               *)
(***************************************************************************)
EXTENDS Integers, Sequences, FiniteSets, TLC

VARIABLES
    facts,        \* logic.py:20   the global fact database, a list of clauses
    IDENTIFIER,   \* logic.py:107  the global renaming counter
    heap,         \* the Frame objects allocated so far: [bindings, parent]
    stack,        \* the live activations of the generator query()
    pc,           \* where the top-level processor is: "idle" or "query"
    expr,         \* the input form being (or last) processed by process_input
    success,      \* logic.py:138  local flag of process_input
    out,          \* the lines printed while processing expr
    sols,         \* history: the results do_query yielded for expr
    uses,         \* history: one record per call of label() made by query()
    nforms,       \* history: the number of forms (of query forms, in the logic
                  \* layer) read so far
    ucall,        \* unify harness: the last direct call of unify and its outcome
    ev            \* evaluator: the last form read by the read-eval-print loop
                  \* and the outcome of its evaluation

vars == <<facts, IDENTIFIER, heap, stack, pc, expr, success, out, sols, uses,
          nforms, ucall, ev>>

-----------------------------------------------------------------------------
(* Terms *)

nil == <<"nil">>
Sym(name) == <<"s", name>>
Pair(a, b) == <<"p", a, b>>

first(p) == p[2]
second(p) == p[3]

scheme_symbolp(x) == x[1] = "s"
scheme_pairp(x) == x[1] = "p"
scheme_nullp(x) == x[1] = "nil"
scheme_booleanp(x) == x[1] = "b"
scheme_numberp(x) == x[1] = "n"
scheme_atomp(x) ==
    scheme_booleanp(x) \/ scheme_numberp(x) \/ scheme_symbolp(x) \/ scheme_nullp(x)

\* logic.py:123-125
isvar(symbol) ==
    /\ scheme_symbolp(symbol)
    /\ Len(symbol[2]) >= 1
    /\ symbol[2][1] = "?"

\* Body(v) with v evaluated once and then shared by its uses in Body, as a
\* local variable assigned once is.
Let(v, Body(_)) == CHOOSE r \in {Body(x) : x \in {v}} : TRUE

RECURSIVE List(_)
\* The Scheme list of the terms of the sequence s.
List(s) == IF s = <<>> THEN nil ELSE Pair(Head(s), List(Tail(s)))

RECURSIVE scheme_len(_)
scheme_len(x) == IF scheme_pairp(x) THEN 1 + scheme_len(second(x)) ELSE 0

\* str(n) for a natural number n, as a sequence of digit characters.
DigitChar == <<"0", "1", "2", "3", "4", "5", "6", "7", "8", "9">>
RECURSIVE str(_)
str(n) ==
    IF n < 10 THEN <<DigitChar[n + 1]>>
    ELSE str(n \div 10) \o <<DigitChar[(n % 10) + 1]>>

-----------------------------------------------------------------------------
(* Frames: scheme.py:88-139 *)

EmptyBindings == [k \in {} |-> nil]

\* scheme.py:91-94  Frame(parent), appended to the heap; its reference is
\* its index.  Parent 0 is None.
NewFrame(h, parent) == Append(h, [bindings |-> EmptyBindings, parent |-> parent])

RECURSIVE Frame_lookup(_, _, _)
\* scheme.py:103-109.  found = FALSE stands for the SchemeError raised.
Frame_lookup(h, env, symbol) ==
    IF symbol \in DOMAIN h[env].bindings
    THEN [found |-> TRUE, val |-> h[env].bindings[symbol]]
    ELSE IF h[env].parent # 0
         THEN Frame_lookup(h, h[env].parent, symbol)
         ELSE [found |-> FALSE, val |-> nil]

\* Mutant of Frame_define: the binding is written into the parent frame.
Frame_define_in_parent(h, env, sym, val) ==
    [h EXCEPT ![IF h[env].parent # 0 THEN h[env].parent ELSE env].bindings =
                  (sym :> val) @@ @]

\* scheme.py:137-139  self.bindings[sym] = val (an existing key is overwritten)
Frame_define(h, env, sym, val) ==
    [h EXCEPT ![env].bindings = (sym :> val) @@ @]

\* Mutant of lookup: the symbol is returned without being resolved.
lookup_unresolved(h, sym, env) == sym

RECURSIVE lookup(_, _, _)
\* logic.py:70-75
lookup(h, sym, env) ==
    Let(Frame_lookup(h, env, sym),
        LAMBDA r : IF r.found THEN lookup(h, r.val, env) ELSE sym)

-----------------------------------------------------------------------------
(* Unification: logic.py:47-88 *)

\* The depth of nested Python calls of unify (or bind) the model follows; a
\* deeper nest is reported as the interpreter's RecursionError.
RecursionLimit == 6

Raised == <<"raise", "RecursionError">>

\* Mutant of unify_case: only a variable on the left is bound.
unify_case_one_way(e, f) ==
    IF e = f THEN "same"
    ELSE IF isvar(e) THEN "bind_e"
    ELSE IF scheme_atomp(e) \/ scheme_atomp(f) THEN "fail"
    ELSE "pairs"

\* logic.py:53-63  the branch unify takes for the resolved terms e and f
unify_case(e, f) ==
    IF e = f THEN "same"
    ELSE IF isvar(e) THEN "bind_e"
    ELSE IF isvar(f) THEN "bind_f"
    ELSE IF scheme_atomp(e) \/ scheme_atomp(f) THEN "fail"
    ELSE "pairs"

RECURSIVE unify(_, _, _, _, _)
\* Mutant of unify_resolved: of two pairs only the first halves are unified.
unify_first_halves(h, e, f, env, limit) ==
    LET c == unify_case(e, f)
    IN  IF c = "same" THEN [res |-> "True", heap |-> h]
        ELSE IF c = "bind_e" THEN [res |-> "True", heap |-> Frame_define(h, env, e, f)]
        ELSE IF c = "bind_f" THEN [res |-> "True", heap |-> Frame_define(h, env, f, e)]
        ELSE IF c = "fail" THEN [res |-> "False", heap |-> h]
        ELSE IF limit = 0 THEN [res |-> "RecursionError", heap |-> h]
        ELSE unify(h, first(e), first(f), env, limit - 1)

\* logic.py:53-64, for the resolved terms e and f of lines 51-52.
unify_resolved(h, e, f, env, limit) ==
    LET c == unify_case(e, f)
    IN  IF c = "same" THEN [res |-> "True", heap |-> h]
        ELSE IF c = "bind_e" THEN [res |-> "True", heap |-> Frame_define(h, env, e, f)]
        ELSE IF c = "bind_f" THEN [res |-> "True", heap |-> Frame_define(h, env, f, e)]
        ELSE IF c = "fail" THEN [res |-> "False", heap |-> h]
        ELSE IF limit = 0 THEN [res |-> "RecursionError", heap |-> h]
        ELSE \* unify(e.first, f.first, env) and unify(e.second, f.second, env)
             Let(unify(h, first(e), first(f), env, limit - 1),
                 LAMBDA r1 : IF r1.res = "True"
                             THEN unify(r1.heap, second(e), second(f), env, limit - 1)
                             ELSE r1)

\* logic.py:47-64.  The result is res = "True" or "False" (the value
\* returned) or "RecursionError" (the call raised), with the heap as the call
\* left it.  limit is the number of nested calls still available.
unify(h, e0, f0, env, limit) ==
    Let(lookup(h, e0, env),
        LAMBDA e : Let(lookup(h, f0, env),
                       LAMBDA f : unify_resolved(h, e, f, env, limit)))

RECURSIVE bind(_, _, _, _)
\* logic.py:77-88.  Raised stands for the RecursionError of an endless nest.
bind(h, x, env, limit) ==
    IF limit = 0 THEN Raised
    ELSE IF scheme_symbolp(x)
    THEN Let(lookup(h, x, env),
             LAMBDA resolved : IF x # resolved
                               THEN bind(h, resolved, env, limit - 1)
                               ELSE x)
    ELSE IF scheme_pairp(x)
    THEN Let(bind(h, first(x), env, limit - 1),
             LAMBDA a : Let(bind(h, second(x), env, limit - 1),
                            LAMBDA b : IF a = Raised \/ b = Raised THEN Raised
                                       ELSE Pair(a, b)))
    ELSE x

-----------------------------------------------------------------------------
(* Support functions: logic.py:94-121 *)

Range(s) == {s[j] : j \in DOMAIN s}

RECURSIVE AppendMissing(_, _)
\* logic.py:100-102  for v in ws: if v not in vs: vs.append(v)
AppendMissing(vs, ws) ==
    IF ws = <<>> THEN vs
    ELSE IF Head(ws) \in Range(vs) THEN AppendMissing(vs, Tail(ws))
    ELSE AppendMissing(Append(vs, Head(ws)), Tail(ws))

RECURSIVE get_vars(_)
\* logic.py:94-105
get_vars(x) ==
    IF isvar(x) THEN <<x>>
    ELSE IF scheme_pairp(x)
    THEN Let(get_vars(first(x)),
             LAMBDA vs : Let(get_vars(second(x)), LAMBDA ws : AppendMissing(vs, ws)))
    ELSE <<>>

\* Mutant of get_unique_id: IDENTIFIER is returned without being incremented.
get_unique_id_stale(id) == id

\* logic.py:108-112  the new value of IDENTIFIER, which is also returned.
get_unique_id(id) == id + 1

\* logic.py:117  expr + '_' + str(n)
label_var(x, n) == Sym(x[2] \o <<"_">> \o str(n))

RECURSIVE label(_, _)
\* logic.py:114-121
label(x, n) ==
    IF isvar(x) THEN label_var(x, n)
    ELSE IF scheme_pairp(x) THEN Pair(label(first(x), n), label(second(x), n))
    ELSE x

-----------------------------------------------------------------------------
(* Symbols and forms used as inputs *)

abe == Sym(<<"a", "b", "e">>)
homer == Sym(<<"h", "o", "m", "e", "r">>)
bart == Sym(<<"b", "a", "r", "t">>)
parent == Sym(<<"p", "a", "r", "e", "n", "t">>)
grandparent == Sym(<<"g", "r", "a", "n", "d", "p", "a", "r", "e", "n", "t">>)
loop == Sym(<<"l", "o", "o", "p">>)
sym_a == Sym(<<"a">>)
sym_b == Sym(<<"b">>)
var_a == Sym(<<"?", "a">>)
var_b == Sym(<<"?", "b">>)
var_c == Sym(<<"?", "c">>)
var_x == Sym(<<"?", "x">>)
var_y == Sym(<<"?", "y">>)
var_who == Sym(<<"?", "w", "h", "o">>)

kw_fact == Sym(<<"f", "a", "c", "t">>)
kw_bang == Sym(<<"!">>)
kw_query == Sym(<<"q", "u", "e", "r", "y">>)
kw_qmark == Sym(<<"?">>)
kw_load == Sym(<<"l", "o", "a", "d">>)
kw_foo == Sym(<<"f", "o", "o">>)

\* The clauses asserted in the sessions explored, each (head hypothesis*).
FactParent1 == List(<<List(<<parent, abe, homer>>)>>)
FactParent2 == List(<<List(<<parent, homer, bart>>)>>)
FactGrandparent ==
    List(<<List(<<grandparent, var_a, var_c>>),
           List(<<parent, var_a, var_b>>),
           List(<<parent, var_b, var_c>>)>>)
FactLoop == List(<<List(<<loop, var_x>>), List(<<loop, var_x>>)>>)

FactPool == {FactParent1, FactParent2, FactGrandparent, FactLoop}

\* The goal lists queried in the sessions explored.
QueryGrandparent == List(<<List(<<grandparent, abe, var_who>>)>>)
QueryLoop == List(<<List(<<loop, sym_a>>)>>)
QueryNone == nil
QueryParents == List(<<List(<<parent, var_x, var_y>>)>>)
QueryChain == List(<<List(<<parent, abe, var_x>>), List(<<parent, var_x, var_y>>)>>)

QueryChild == List(<<List(<<parent, var_x, bart>>)>>)

QueryPool ==
    {QueryGrandparent, QueryLoop, QueryNone, QueryParents, QueryChain, QueryChild}

\* The input forms of the sessions explored.
InputPool ==
    {Pair(kw_fact, c) : c \in FactPool}
      \cup {Pair(kw_query, g) : g \in QueryPool}
      \cup {List(<<kw_foo>>)}

\* The sessions explored assert at most MaxFacts clauses, each clause of
\* FactPool at most once, and process at most MaxQueries query forms.
MaxFacts == 3
MaxQueries == 2
\* The sessions explored for termination, under fairness.
MaxFairFacts == 2
MaxFairQueries == 1

-----------------------------------------------------------------------------
(* Inference: logic.py:26-45 *)

\* logic.py:31
DEPTH_LIMIT == 20

\* An activation of the generator query(clauses, env, depth): logic.py:32.
\* i is the index in facts of the next fact of the loop of line 39; parent
\* is the activation consuming its results (0: do_query) and role tells from
\* which loop: "hyps" (line 43), "rest" (line 44) or "root" (line 28);
\* st is "yielded" while it is suspended at line 37; cur is the clause the
\* loop of line 39 took last (nil before its first iteration).
Activation(clauses, env, depth, par, role) ==
    [clauses |-> clauses, env |-> env, depth |-> depth, i |-> 1, cur |-> nil,
     parent |-> par, role |-> role, st |-> "run"]

Top == stack[Len(stack)]

\* Mutant of depth_ok: the search is not limited (DEPTH_LIMIT is None).
depth_unlimited(depth) == TRUE

\* No fact is tried once the renaming counter has reached TryLimit: more
\* than the facts tried by maxq queries that each try every one of maxf facts
\* at every depth from 0 to DEPTH_LIMIT.
TryLimit(maxf, maxq) == maxq * maxf * (DEPTH_LIMIT + 2)

\* Mutant of depth_ok: one more level is searched.
depth_one_more(depth) == depth <= DEPTH_LIMIT + 1

\* logic.py:38
depth_ok(depth) == depth <= DEPTH_LIMIT

\* Mutant of fact_at: the facts are taken last-inserted first.
fact_at_reversed(db, i) == db[Len(db) + 1 - i]

\* logic.py:39  the fact the loop takes at its i-th iteration
fact_at(db, i) == db[i]

\* Mutant of facts_after_label: the renamed clause is stored back in the list.
facts_relabelled(db, i, labelled) == [db EXCEPT ![i] = labelled]

\* logic.py:39-40  the database after a fact was renamed: label builds new
\* terms bound to the local name fact, the list is not touched.
facts_after_label(db, i, labelled) == db

RECURSIVE Consumer(_, _)
\* The activation whose result at line 37 or 45 is received by a loop that
\* does something other than yield it on: results of a "rest" activation are
\* yielded on by its parent (line 45).
Consumer(st, k) == IF st[k].role = "rest" THEN Consumer(st, st[k].parent) ELSE k

\* Mutant of query_hyps: hypotheses are established at the caller's depth.
query_hyps_same_depth(st, k, fact, env_head) ==
    Activation(second(fact), env_head, st[k].depth, k, "hyps")

\* logic.py:43  query(fact.second, env_head, depth+1), started by activation k
query_hyps(st, k, fact, env_head) ==
    Activation(second(fact), env_head, st[k].depth + 1, k, "hyps")

\* Mutant of query_rest: the remaining goals are searched in env, not env_rule.
query_rest_in_env(st, p, env_rule) ==
    Activation(second(st[p].clauses), st[p].env, st[p].depth + 1, p, "rest")

\* logic.py:44  query(clauses.second, env_rule, depth+1), started by activation p
query_rest(st, p, env_rule) ==
    Activation(second(st[p].clauses), env_rule, st[p].depth + 1, p, "rest")

\* logic.py:29  one result of do_query
do_query_result(h, clauses, env) ==
    Let(get_vars(clauses),
        LAMBDA vs : [j \in 1..Len(vs) |-> <<vs[j], bind(h, vs[j], env, RecursionLimit)>>])

\* logic.py:143  the line printed for a result: name (marker stripped) and value
result_line(result) ==
    <<"line", [j \in 1..Len(result) |-> <<Tail(result[j][1][2]), result[j][2]>>]>>

\* Mutant of print_result: the flag success is not consulted.
print_result_always(lines, succ, result) ==
    Append(lines, <<"Success!">>) \o <<result_line(result)>>

\* logic.py:140-143  what process_input prints for one result
print_result(lines, succ, result) ==
    (IF ~succ THEN Append(lines, <<"Success!">>) ELSE lines) \o <<result_line(result)>>

\* Mutant of print_failed: the flag success is not consulted.
print_failed_always(lines, succ) == Append(lines, <<"Failed.">>)

\* logic.py:144-145  what process_input prints once the results are exhausted
print_failed(lines, succ) == IF ~succ THEN Append(lines, <<"Failed.">>) ELSE lines

\* No form has been read by the read-eval-print loop.
NoEval == [form |-> <<"nil">>, x |-> <<"nil">>, env |-> 0, res |-> "none",
           val |-> <<"None">>, maxd |-> 0, passes |-> 0, pre |-> <<>>]

NoCall == [n |-> 0, a |-> nil, b |-> nil, env |-> 0, res |-> "none", sres |-> "none",
           ok |-> {}, pre |-> <<>>]

Init ==
    /\ facts = <<>>
    /\ IDENTIFIER = 0
    /\ heap = <<>>
    /\ stack = <<>>
    /\ pc = "idle"
    /\ expr = nil
    /\ success = FALSE
    /\ out = <<>>
    /\ sols = <<>>
    /\ uses = <<>>
    /\ nforms = 0
    /\ ucall = NoCall
    /\ ev = NoEval

\* logic.py:134-135
ProcessFact(e, maxf) ==
    /\ pc = "idle"
    /\ first(e) \in {kw_fact, kw_bang}
    /\ Len(facts) < maxf
    /\ second(e) \notin Range(facts)
    /\ facts' = Append(facts, second(e))
    /\ expr' = e
    /\ out' = <<>>
    /\ UNCHANGED <<IDENTIFIER, heap, stack, pc, success, sols, uses, nforms, ucall, ev>>

\* logic.py:136-138 and 26-28: the query starts with an empty root frame,
\* depth 0 and success = False.
ProcessQuery(e, maxq) ==
    /\ pc = "idle"
    /\ first(e) \notin {kw_fact, kw_bang}
    /\ first(e) \in {kw_query, kw_qmark}
    /\ nforms < maxq
    /\ nforms' = nforms + 1
    /\ expr' = e
    /\ pc' = "query"
    /\ success' = FALSE
    /\ out' = <<>>
    /\ sols' = <<>>
    /\ heap' = NewFrame(<<>>, 0)
    /\ stack' = <<Activation(second(e), 1, 0, 0, "root")>>
    /\ UNCHANGED <<facts, IDENTIFIER, uses, ucall, ev>>

\* logic.py:149-150
ProcessOther(e) ==
    /\ pc = "idle"
    /\ first(e) \notin {kw_fact, kw_bang, kw_query, kw_qmark, kw_load}
    /\ expr' = e
    /\ out' = <<<<"Please provide a fact or query.">>>>
    /\ UNCHANGED <<facts, IDENTIFIER, heap, stack, pc, success, sols, uses, nforms, ucall, ev>>

\* logic.py:39-43  one iteration of the loop over the facts
QueryTryFact(limit) ==
    /\ pc = "query"
    /\ stack # <<>>
    /\ Top.st = "run"
    /\ Top.clauses # nil
    /\ depth_ok(Top.depth)
    /\ Top.i <= Len(facts)
    /\ IDENTIFIER < limit
    /\ \E id \in {get_unique_id(IDENTIFIER)} :
       \E cur \in {fact_at(facts, Top.i)} :
       \E fact \in {label(cur, id)} :
       \E env_head \in {Len(heap) + 1} :
       \E r \in {unify(NewFrame(heap, Top.env), first(fact), first(Top.clauses),
                       env_head, RecursionLimit)} :
       \E k \in {Len(stack)} :
       \E st1 \in {[stack EXCEPT ![k].i = @ + 1, ![k].cur = cur]} :
           /\ IDENTIFIER' = id
           /\ facts' = facts_after_label(facts, Top.i, fact)
           /\ heap' = r.heap
           /\ uses' = Append(uses, [fact |-> Top.i, id |-> id,
                                    vars |-> Range(get_vars(fact))])
           /\ IF r.res = "True"
              THEN /\ stack' = Append(st1, query_hyps(stack, k, fact, env_head))
                   /\ pc' = pc
              ELSE IF r.res = "False"
              THEN stack' = st1 /\ pc' = pc
              ELSE stack' = <<>> /\ pc' = "crashed"
    /\ UNCHANGED <<expr, success, out, sols, nforms, ucall, ev>>

\* logic.py:36-37 and 43-44: an activation with no clauses yields its env, and
\* the loop of line 43 that receives it starts query(clauses.second, env_rule,
\* depth+1).
QueryYieldInner ==
    /\ pc = "query"
    /\ stack # <<>>
    /\ Top.st = "run"
    /\ Top.clauses = nil
    /\ \E c \in {Consumer(stack, Len(stack))} :
           /\ stack[c].role = "hyps"
           /\ stack' = Append([stack EXCEPT ![Len(stack)].st = "yielded"],
                              query_rest(stack, stack[c].parent, Top.env))
    /\ UNCHANGED <<facts, IDENTIFIER, heap, pc, expr, success, out, sols, uses,
                   nforms, ucall, ev>>

\* logic.py:36-37, 28-29 and 139-143: the result reaches do_query, which
\* yields the bindings of the query's variables, and process_input prints.
QueryYieldResult ==
    /\ pc = "query"
    /\ stack # <<>>
    /\ Top.st = "run"
    /\ Top.clauses = nil
    /\ stack[Consumer(stack, Len(stack))].role = "root"
    /\ \E result \in {do_query_result(heap, second(expr), Top.env)} :
           IF \E j \in 1..Len(result) : result[j][2] = Raised
           THEN /\ stack' = <<>>
                /\ pc' = "crashed"
                /\ UNCHANGED <<out, success, sols>>
           ELSE /\ stack' = [stack EXCEPT ![Len(stack)].st = "yielded"]
                /\ pc' = pc
                /\ out' = print_result(out, success, result)
                /\ success' = TRUE
                /\ sols' = Append(sols, [bindings |-> result,
                                         fact |-> stack[1].cur])
    /\ UNCHANGED <<facts, IDENTIFIER, heap, expr, uses, nforms, ucall, ev>>

\* logic.py:36-39: a resumed activation ends after its yield at line 37, when
\* the depth test of line 38 fails, or when the loop of line 39 is over.
QueryReturn ==
    /\ pc = "query"
    /\ stack # <<>>
    /\ \/ Top.st = "yielded"
       \/ Top.clauses # nil /\ ~depth_ok(Top.depth)
       \/ Top.clauses # nil /\ depth_ok(Top.depth) /\ Top.i > Len(facts)
    /\ stack' = SubSeq(stack, 1, Len(stack) - 1)
    /\ UNCHANGED <<facts, IDENTIFIER, heap, pc, expr, success, out, sols, uses,
                   nforms, ucall, ev>>

\* logic.py:139, 144-145: the results are exhausted
QueryEnd ==
    /\ pc = "query"
    /\ stack = <<>>
    /\ out' = print_failed(out, success)
    /\ pc' = "idle"
    /\ UNCHANGED <<facts, IDENTIFIER, heap, stack, expr, success, sols, uses,
                   nforms, ucall, ev>>

QueryStep(limit) ==
    \/ QueryTryFact(limit)
    \/ QueryYieldInner
    \/ QueryYieldResult
    \/ QueryReturn
    \/ QueryEnd

\* The sessions of at most maxf facts and maxq queries.
Session(maxf, maxq) ==
    \/ \E e \in InputPool : ProcessFact(e, maxf)
    \/ \E e \in InputPool : ProcessQuery(e, maxq)
    \/ \E e \in InputPool : ProcessOther(e)
    \/ QueryStep(TryLimit(maxf, maxq))

Next == Session(MaxFacts, MaxQueries)

Spec == Init /\ [][Next]_vars

FairNext == Session(MaxFairFacts, MaxFairQueries)

\* The interpreter runs a query to its end once it has started it: a step of
\* the search that can be taken is taken.
FairSpec ==
    /\ Init
    /\ [][FairNext]_vars
    /\ WF_vars(QueryStep(TryLimit(MaxFairFacts, MaxFairQueries)))

-----------------------------------------------------------------------------
(* Direct calls of unify.  query calls unify at line 42 on a new child of a
   frame of the search, and unify calls itself at line 64 on a frame it has
   already extended; both kinds of call are made here, on terms of TermPool. *)

TermPool ==
    {var_x, var_y, sym_a, sym_b,
     Pair(sym_a, var_x), Pair(sym_a, var_y), Pair(var_x, var_y),
     Pair(var_x, var_x), Pair(sym_a, sym_b)}

\* The number of direct calls of unify made in a run.
MaxCalls == 2

InitUnify ==
    /\ facts = <<>>
    /\ IDENTIFIER = 0
    /\ heap = NewFrame(<<>>, 0)
    /\ stack = <<>>
    /\ pc = "unify"
    /\ expr = nil
    /\ success = FALSE
    /\ out = <<>>
    /\ sols = <<>>
    /\ uses = <<>>
    /\ nforms = 0
    /\ ucall = [NoCall EXCEPT !.ok = {1}]
    /\ ev = NoEval

\* The call unify(a, b, env) on the heap h, recorded with the heap before the
\* call and with the outcome of unify(b, a, env) on the same heap h.
UnifyCall(h, a, b, env) ==
    LET r == unify(h, a, b, env, RecursionLimit)
        s == unify(h, b, a, env, RecursionLimit)
    IN  /\ heap' = r.heap
        /\ ucall' = [n |-> ucall.n + 1, a |-> a, b |-> b, env |-> env,
                     res |-> r.res, sres |-> s.res,
                     ok |-> IF r.res = "True" THEN ucall.ok \cup {env}
                            ELSE ucall.ok \ {env},
                     pre |-> h]
        /\ UNCHANGED <<facts, IDENTIFIER, stack, pc, expr, success, out, sols,
                       uses, nforms, ev>>

\* logic.py:41-42  env_head = Frame(env); unify(..., env_head)
UnifyNewFrame(a, b, par) ==
    /\ pc = "unify"
    /\ ucall.n < MaxCalls
    /\ par \in ucall.ok
    /\ UnifyCall(NewFrame(heap, par), a, b, Len(heap) + 1)

\* logic.py:64  the second call, on the frame the first call extended
UnifySameFrame(a, b, env) ==
    /\ pc = "unify"
    /\ ucall.n < MaxCalls
    /\ env \in ucall.ok \ {1}
    /\ UnifyCall(heap, a, b, env)

NextUnify ==
    \/ \E a, b \in TermPool : \E par \in 1..Len(heap) : UnifyNewFrame(a, b, par)
    \/ \E a, b \in TermPool : \E env \in 1..Len(heap) : UnifySameFrame(a, b, env)

SpecUnify == InitUnify /\ [][NextUnify]_vars

-----------------------------------------------------------------------------
(* The evaluator: scheme.py *)

None == <<"None">>
Num(k) == <<"n", k>>
Bool(t) == <<"b", t>>
PrimitiveProcedure(name) == <<"prim", name>>
\* scheme.py:144-152
LambdaProcedure(formals, body, env) == <<"lambda", formals, body, env>>
\* scheme.py:165-167
MuProcedure(formals, body) == <<"mu", formals, body>>

scheme_true(val) == val # Bool(FALSE)
scheme_false(val) == val = Bool(FALSE)

RECURSIVE scheme_listp(_)
scheme_listp(x) ==
    IF scheme_nullp(x) THEN TRUE
    ELSE IF scheme_pairp(x) THEN scheme_listp(second(x))
    ELSE FALSE

RECURSIVE nth(_, _)
\* Pair.__getitem__: x[k], k counted from 0, for k below the length of x
nth(x, k) == IF k = 0 THEN first(x) ELSE nth(second(x), k - 1)

kw_and == Sym(<<"a", "n", "d">>)
kw_or == Sym(<<"o", "r">>)
kw_if == Sym(<<"i", "f">>)
kw_cond == Sym(<<"c", "o", "n", "d">>)
kw_begin == Sym(<<"b", "e", "g", "i", "n">>)
kw_else == Sym(<<"e", "l", "s", "e">>)
kw_lambda == Sym(<<"l", "a", "m", "b", "d", "a">>)
kw_mu == Sym(<<"m", "u">>)
kw_define == Sym(<<"d", "e", "f", "i", "n", "e">>)
kw_quote == Sym(<<"q", "u", "o", "t", "e">>)
kw_let == Sym(<<"l", "e", "t">>)
sym_eq == Sym(<<"=">>)
sym_minus == Sym(<<"-">>)
sym_plus == Sym(<<"+">>)

\* The nest of Python calls of the evaluator's recursive functions
\* (scheme_optimized_eval, the do_..._form functions, Frame.lookup) that the
\* interpreter's stack holds; a deeper nest raises RecursionError.
HostLimit == 9

\* The Python side of an evaluation: the frames allocated so far and the
\* deepest nest of calls reached so far.
World(h, maxd) == [heap |-> h, maxd |-> maxd]

\* The outcome of a call: a returned value, or a raised exception.
Return(m, val) == [res |-> "ok", val |-> val, env |-> 0, m |-> m]
Raise(m, kind, msg) == [res |-> kind, val |-> msg, env |-> 0, m |-> m]

\* The end of a pass of the evaluator's loop that assigned expr and env.
Again(m, x, env) == [res |-> "again", val |-> x, env |-> env, m |-> m]

\* A call that puts an activation at depth d of the nest and runs Body.
Call(m, d, Body(_)) ==
    IF d > HostLimit
    THEN Raise(m, "RecursionError", "maximum recursion depth exceeded")
    ELSE Body([m EXCEPT !.maxd = IF d > @ THEN d ELSE @])

\* Python's sequencing: F goes on from the outcome r unless r raised.
Then(r, F(_)) == Let(r, LAMBDA x : IF x.res = "ok" THEN F(x) ELSE x)

RECURSIVE Frame_lookup_eval(_, _, _, _)
\* scheme.py:103-109  env.lookup(symbol), its activation at depth d
Frame_lookup_eval(m, env, symbol, d) ==
    Call(m, d, LAMBDA m1 :
        IF symbol \in DOMAIN m1.heap[env].bindings
        THEN Return(m1, m1.heap[env].bindings[symbol])
        ELSE IF m1.heap[env].parent # 0
        THEN Frame_lookup_eval(m1, m1.heap[env].parent, symbol, d + 1)
        ELSE Raise(m1, "SchemeError", "unknown identifier"))

RECURSIVE bind_formals(_, _, _, _)
\* scheme.py:129-134  the loop of make_call_frame; nil.first raises
\* AttributeError when the values run out before the formals
bind_formals(m, frame, formals, vals) ==
    IF scheme_len(formals) = 0 THEN Return(m, None)
    ELSE IF ~scheme_pairp(vals)
    THEN Raise(m, "AttributeError", "object has no attribute 'first'")
    ELSE bind_formals(
             [m EXCEPT !.heap = Frame_define(@, frame, first(formals), first(vals))],
             frame, second(formals), second(vals))

\* scheme.py:118-135  self.make_call_frame(formals, vals); env of the outcome
\* is the new frame
make_call_frame(m, self, formals, vals) ==
    Then(bind_formals([m EXCEPT !.heap = NewFrame(@, self)],
                      Len(m.heap) + 1, formals, vals),
         LAMBDA r : [r EXCEPT !.env = Len(m.heap) + 1])

\* scheme.py:327-337  check_form(expr, min, max); maxs is {max}, or {} for
\* max = None
check_form(m, x, min, maxs) ==
    IF ~scheme_listp(x) THEN Raise(m, "Exception", "badly formed expression")
    ELSE IF scheme_len(x) < min
    THEN Raise(m, "SchemeError", "too few operands in form")
    ELSE IF \E max \in maxs : scheme_len(x) > max
    THEN Raise(m, "SchemeError", "too many operands in form")
    ELSE Return(m, None)

RECURSIVE check_formals_from(_, _, _)
\* scheme.py:346-355  the loop of check_formals, list holding the symbols seen
check_formals_from(m, formals, list) ==
    IF formals = nil THEN Return(m, None)
    ELSE IF ~scheme_pairp(formals) THEN Raise(m, "SchemeError", "bad formed formals")
    ELSE IF first(formals) \in list THEN Raise(m, "SchemeError", "bad formed formals")
    ELSE IF ~scheme_symbolp(first(formals))
    THEN Raise(m, "SchemeError", "bad formed formals")
    ELSE check_formals_from(m, second(formals), list \cup {first(formals)})

\* scheme.py:339-355
check_formals(m, formals) == check_formals_from(m, formals, {})

\* The primitives =, - and + of two numbers; procedure.fn(*py_list) raises
\* TypeError for another number of arguments, reported as SchemeError('bad').
\* scheme.py:69-82
apply_primitive(m, procedure, args) ==
    IF scheme_len(args) # 2 THEN Raise(m, "SchemeError", "bad")
    ELSE IF ~(scheme_numberp(nth(args, 0)) /\ scheme_numberp(nth(args, 1)))
    THEN Raise(m, "SchemeError", "operand is not a number")
    ELSE IF procedure[2] = "=" THEN Return(m, Bool(nth(args, 0)[2] = nth(args, 1)[2]))
    ELSE IF procedure[2] = "-" THEN Return(m, Num(nth(args, 0)[2] - nth(args, 1)[2]))
    ELSE Return(m, Num(nth(args, 0)[2] + nth(args, 1)[2]))

LOGIC_FORMS == {kw_and, kw_or, kw_if, kw_cond, kw_begin}

\* Python's truth value of an object, as the statement "if test:" of
\* scheme.py:300 takes it.
py_truth(val) ==
    ~(val = Bool(FALSE) \/ val = None \/ val = nil
        \/ (scheme_numberp(val) /\ val[2] = 0))

RECURSIVE scheme_eval(_, _, _, _), eval_loop(_, _, _, _),
          eval_pass(_, _, _, _),
          eval_operands(_, _, _, _), do_and_form(_, _, _, _),
          do_or_form(_, _, _, _), do_cond_clauses(_, _, _, _),
          do_begin_form(_, _, _, _), do_let_bindings(_, _, _, _, _, _),
          do_let_exprs(_, _, _, _)

\* scheme.py:181-189
do_lambda_form(m, vals, env) ==
    Then(check_form(m, vals, 2, {}), LAMBDA r1 :
    Then(check_formals(m, nth(vals, 0)), LAMBDA r2 :
        IF scheme_len(second(vals)) > 1
        THEN Return(m, LambdaProcedure(nth(vals, 0), Pair(kw_begin, second(vals)), env))
        ELSE Return(m, LambdaProcedure(nth(vals, 0), nth(second(vals), 0), env))))

\* scheme.py:191-199
do_mu_form(m, vals) ==
    Then(check_form(m, vals, 2, {}), LAMBDA r1 :
    Then(check_formals(m, nth(vals, 0)), LAMBDA r2 :
        IF scheme_len(second(vals)) > 1
        THEN Return(m, MuProcedure(nth(vals, 0), Pair(kw_begin, second(vals))))
        ELSE Return(m, MuProcedure(nth(vals, 0), nth(second(vals), 0)))))

\* scheme.py:207 and 214  env.bindings[target] = <the value of r>; the form
\* has no value
define_value(r, env, target) ==
    Return([r.m EXCEPT !.heap = Frame_define(@, env, target, r.val)], None)

\* scheme.py:201-216, its activation at depth d
do_define_form(m, vals, env, d) ==
    Call(m, d, LAMBDA m1 :
    Then(check_form(m1, vals, 2, {}), LAMBDA r1 :
        IF scheme_symbolp(nth(vals, 0))
        THEN Then(check_form(m1, vals, 2, {2}), LAMBDA r2 :
             Then(scheme_eval(m1, nth(vals, 1), env, d + 1), LAMBDA r3 :
                 define_value(r3, env, nth(vals, 0))))
        ELSE IF scheme_pairp(nth(vals, 0))
        THEN IF ~scheme_symbolp(first(nth(vals, 0)))
             THEN Raise(m1, "SchemeError", "Not a symbol")
             ELSE Then(scheme_eval(m1,
                           Pair(kw_lambda, Pair(second(nth(vals, 0)), second(vals))),
                           env, d + 1),
                       LAMBDA r3 : define_value(r3, env, first(nth(vals, 0))))
        ELSE Raise(m1, "SchemeError", "bad argument to define")))

\* scheme.py:218-221
do_quote_form(m, vals) ==
    Then(check_form(m, vals, 1, {1}), LAMBDA r1 : Return(m, nth(vals, 0)))

\* scheme.py:230-235  the loop of do_let_form over the bindings left; it ends
\* with the lists names and value, both in reverse order.  A binding that is
\* no Pair has no attribute first; one with no expression has no element 0.
do_let_bindings(m, bindings, names, value, env, d) ==
    IF bindings = nil THEN Return(m, <<names, value>>)
    ELSE IF ~scheme_pairp(first(bindings))
    THEN Raise(m, "AttributeError", "object has no attribute 'first'")
    ELSE IF ~scheme_pairp(second(first(bindings)))
    THEN Raise(m, "IndexError", "list index out of bounds")
    ELSE Then(scheme_eval(m, nth(second(first(bindings)), 0), env, d + 1),
              LAMBDA r : do_let_bindings(r.m, second(bindings),
                             Pair(first(first(bindings)), names),
                             Pair(r.val, value), env, d))

\* scheme.py:239-242  all but the last expression are evaluated in new_env;
\* the last one is returned with new_env
do_let_exprs(m, exprs, new_env, d) ==
    IF scheme_len(exprs) = 1
    THEN [Return(m, first(exprs)) EXCEPT !.env = new_env]
    ELSE Then(scheme_eval(m, first(exprs), new_env, d + 1),
              LAMBDA r : do_let_exprs(r.m, second(exprs), new_env, d))

\* scheme.py:223-242, its activation at depth d
do_let_form(m, vals, env, d) ==
    Call(m, d, LAMBDA m1 :
    Then(check_form(m1, vals, 2, {}), LAMBDA r1 :
        IF ~scheme_listp(nth(vals, 0))
        THEN Raise(m1, "SchemeError", "bad bindings list in let form")
        ELSE Then(do_let_bindings(m1, nth(vals, 0), nil, nil, env, d), LAMBDA r2 :
             Then(make_call_frame(r2.m, env, r2.val[1], r2.val[2]), LAMBDA r3 :
                 do_let_exprs(r3.m, second(vals), r3.env, d)))))

\* scheme.py:248-257, its activation at depth d
do_if_form(m, vals, env, d) ==
    Call(m, d, LAMBDA m1 :
    Then(check_form(m1, vals, 3, {3}), LAMBDA r1 :
    Then(scheme_eval(m1, nth(vals, 0), env, d + 1), LAMBDA r2 :
        IF scheme_true(r2.val) THEN Return(r2.m, nth(vals, 1))
        ELSE Return(r2.m, nth(vals, 2)))))

\* scheme.py:259-271, its activation at depth d (the loop goes on in the
\* same activation)
do_and_form(m, vals, env, d) ==
    Call(m, d, LAMBDA m1 :
        IF scheme_len(vals) = 0 THEN Return(m1, Bool(TRUE))
        ELSE Then(scheme_eval(m1, first(vals), env, d + 1), LAMBDA r :
            IF scheme_false(r.val) THEN Return(r.m, first(vals))
            ELSE IF scheme_len(second(vals)) = 1
            THEN Return(r.m, first(second(vals)))
            ELSE IF second(vals) = nil THEN Return(r.m, Bool(TRUE))
            ELSE do_and_form(r.m, second(vals), env, d)))

\* scheme.py:273-285, its activation at depth d
do_or_form(m, vals, env, d) ==
    Call(m, d, LAMBDA m1 :
        IF scheme_len(vals) = 0 THEN Return(m1, Bool(FALSE))
        ELSE Then(scheme_eval(m1, first(vals), env, d + 1), LAMBDA r :
            IF scheme_true(r.val) THEN Return(r.m, first(vals))
            ELSE IF scheme_len(second(vals)) = 1
            THEN Return(r.m, first(second(vals)))
            ELSE IF second(vals) = nil THEN Return(r.m, Bool(FALSE))
            ELSE do_or_form(r.m, second(vals), env, d)))

\* scheme.py:300-303  what do_cond_form returns for a clause whose test is
\* true in Python
cond_chosen(m, clause) ==
    IF second(clause) = nil THEN Return(m, first(clause))
    ELSE Return(m, Pair(kw_begin, second(clause)))

\* scheme.py:290-304  the loop of do_cond_form over the clauses left; the
\* clause at hand is the last one (i = num_clauses - 1) when none follows it
do_cond_clauses(m, vals, env, d) ==
    IF vals = nil THEN Return(m, None)
    ELSE Then(check_form(m, first(vals), 1, {}), LAMBDA r1 :
        IF first(first(vals)) = kw_else
        THEN IF second(vals) # nil THEN Raise(m, "SchemeError", "else must be last")
             ELSE IF second(first(vals)) = nil
             THEN Raise(m, "SchemeError", "badly formed else clause")
             ELSE cond_chosen(m, first(vals))
        ELSE Then(scheme_eval(m, first(first(vals)), env, d + 1), LAMBDA r2 :
            IF py_truth(r2.val) THEN cond_chosen(r2.m, first(vals))
            ELSE do_cond_clauses(r2.m, second(vals), env, d)))

\* scheme.py:287-304, its activation at depth d
do_cond_form(m, vals, env, d) ==
    Call(m, d, LAMBDA m1 : do_cond_clauses(m1, vals, env, d))

\* scheme.py:306-313, its activation at depth d; line 313 is a Python call
do_begin_form(m, vals, env, d) ==
    Call(m, d, LAMBDA m1 :
    Then(check_form(m1, vals, 1, {}), LAMBDA r1 :
        IF scheme_len(vals) = 1 THEN Return(m1, first(vals))
        ELSE Then(scheme_eval(m1, first(vals), env, d + 1),
                  LAMBDA r2 : do_begin_form(r2.m, second(vals), env, d + 1))))

\* scheme.py:317-323 and 381  LOGIC_FORMS[first](rest, env)
logic_form(m, fst, rest, env, d) ==
    IF fst = kw_and THEN do_and_form(m, rest, env, d)
    ELSE IF fst = kw_or THEN do_or_form(m, rest, env, d)
    ELSE IF fst = kw_if THEN do_if_form(m, rest, env, d)
    ELSE IF fst = kw_cond THEN do_cond_form(m, rest, env, d)
    ELSE do_begin_form(m, rest, env, d)

\* scheme.py:395  rest.map(lambda operand: scheme_eval(operand, env)): the
\* operands are evaluated from left to right, each by a call at depth d
eval_operands(m, rest, env, d) ==
    IF rest = nil THEN Return(m, nil)
    ELSE Then(scheme_eval(m, first(rest), env, d), LAMBDA r1 :
         Then(eval_operands(r1.m, second(rest), env, d), LAMBDA r2 :
             Return(r2.m, Pair(r1.val, r2.val))))

\* Mutant of eval_apply: the call frame of a lexical closure is chained from
\* the caller's frame too.
eval_apply_dynamic(m, procedure, args, env) ==
    IF procedure[1] = "prim" THEN apply_primitive(m, procedure, args)
    ELSE IF procedure[1] \in {"lambda", "mu"}
    THEN Then(make_call_frame(m, env, procedure[2], args),
              LAMBDA r : Again(r.m, procedure[3], r.env))
    ELSE Raise(m, "SchemeError", "Cannot call")

\* scheme.py:396-405  the procedure is applied: a primitive's value is
\* returned; a closure's body and call frame are the next expr and env of
\* the loop
eval_apply(m, procedure, args, env) ==
    IF procedure[1] = "prim" THEN apply_primitive(m, procedure, args)
    ELSE IF procedure[1] = "lambda"
    THEN Then(make_call_frame(m, procedure[4], procedure[2], args),
              LAMBDA r : Again(r.m, procedure[3], r.env))
    ELSE IF procedure[1] = "mu"
    THEN Then(make_call_frame(m, env, procedure[2], args),
              LAMBDA r : Again(r.m, procedure[3], r.env))
    ELSE Raise(m, "SchemeError", "Cannot call")

\* scheme.py:364-405  one pass of the loop of scheme_optimized_eval, whose
\* activation is at depth d: it returns, raises, or assigns expr (and env)
\* and goes round again
eval_pass(m, x, env, d) ==
    IF x = None
    THEN Raise(m, "SchemeError", "Cannot evaluate an undefined expression.")
    ELSE IF scheme_symbolp(x) THEN Frame_lookup_eval(m, env, x, d + 1)
    ELSE IF scheme_atomp(x) THEN Return(m, x)
    ELSE IF ~scheme_listp(x) THEN Raise(m, "SchemeError", "malformed list")
    ELSE IF first(x) \in LOGIC_FORMS
    THEN Then(logic_form(m, first(x), second(x), env, d + 1),
              LAMBDA r : Again(r.m, r.val, env))
    ELSE IF first(x) = kw_lambda THEN do_lambda_form(m, second(x), env)
    ELSE IF first(x) = kw_mu THEN do_mu_form(m, second(x))
    ELSE IF first(x) = kw_define THEN do_define_form(m, second(x), env, d + 1)
    ELSE IF first(x) = kw_quote THEN do_quote_form(m, second(x))
    ELSE IF first(x) = kw_let
    THEN Then(do_let_form(m, second(x), env, d + 1),
              LAMBDA r : Again(r.m, r.val, r.env))
    ELSE Then(scheme_eval(m, first(x), env, d + 1), LAMBDA rp :
         Then(eval_operands(rp.m, second(x), env, d + 1), LAMBDA ra :
             eval_apply(ra.m, rp.val, ra.val, env)))

\* scheme.py:363  while True: the passes of one activation, until one of
\* them returns or raises
eval_loop(m, x, env, d) ==
    Let(eval_pass(m, x, env, d), LAMBDA r :
        IF r.res = "again" THEN eval_loop(r.m, r.val, r.env, d) ELSE r)

\* scheme.py:361-407  scheme_eval = scheme_optimized_eval, its activation at
\* depth d
scheme_eval(m, x, env, d) == Call(m, d, LAMBDA m1 : eval_loop(m1, x, env, d))

\* scheme.py:451-458  the global frame, with the primitives the programs
\* explored use
create_global_frame ==
    Frame_define(Frame_define(Frame_define(NewFrame(<<>>, 0),
        1, sym_eq, PrimitiveProcedure("=")),
        1, sym_minus, PrimitiveProcedure("-")),
        1, sym_plus, PrimitiveProcedure("+"))

-----------------------------------------------------------------------------
(* The read-eval-print loop: scheme.py:414-427 *)

sym_f == Sym(<<"f">>)
sym_g == Sym(<<"g">>)
sym_n == Sym(<<"n">>)
sym_m == Sym(<<"m">>)
sym_acc == Sym(<<"a", "c", "c">>)

\* (f n 0): the running total of 1..n
CallF(n) == List(<<sym_f, Num(n), Num(0)>>)

ExprDone == List(<<sym_eq, sym_n, Num(0)>>)
ExprLess == List(<<sym_minus, sym_n, Num(1)>>)
ExprMore == List(<<sym_plus, sym_acc, sym_n>>)
\* (f (- n 1) (+ acc n))
ExprStep == List(<<sym_f, ExprLess, ExprMore>>)
ExprIf == List(<<kw_if, ExprDone, sym_acc, ExprStep>>)
FormalsF == List(<<sym_n, sym_acc>>)

\* (define (f n acc) body)
DefineF(body) == List(<<kw_define, Pair(sym_f, FormalsF), body>>)

\* The tail call is the chosen branch of if.
DefineIf == DefineF(ExprIf)
\* The tail call is in the chosen clause of cond.
DefineCond ==
    DefineF(List(<<kw_cond, List(<<ExprDone, sym_acc>>), List(<<kw_else, ExprStep>>)>>))
\* The tail call is the last operand of or; acc is the last operand of and.
DefineAndOr ==
    DefineF(List(<<kw_or, List(<<kw_and, ExprDone, sym_acc>>), ExprStep>>))
\* The tail call is the last operand of begin.
DefineBegin ==
    DefineF(List(<<kw_if, ExprDone, sym_acc, List(<<kw_begin, sym_n, ExprStep>>)>>))
\* The tail call is the last body expression of let.
DefineLet ==
    DefineF(List(<<kw_if, ExprDone, sym_acc,
                   List(<<kw_let, List(<<List(<<sym_m, ExprLess>>)>>),
                          List(<<sym_f, sym_m, ExprMore>>)>>)>>))
\* The body of f is directly a tail call, of g, which goes round through f.
DefineDirect == DefineF(List(<<sym_g, sym_n, sym_acc>>))
DefineG == List(<<kw_define, Pair(sym_g, FormalsF), ExprIf>>)
\* (define f (mu (n acc) (if ...))): the same loop as a dynamic closure
DefineMu == List(<<kw_define, sym_f, List(<<kw_mu, FormalsF, ExprIf>>)>>)

LexicalDefines ==
    {DefineIf, DefineCond, DefineAndOr, DefineBegin, DefineLet, DefineDirect}

\* The largest n of the calls (f n 0) read, and the number of forms read in
\* a run.
MaxN == 5
MaxForms == 3

FormPool == LexicalDefines \cup {DefineG, DefineMu} \cup {CallF(n) : n \in 0..MaxN}

InitEval ==
    /\ facts = <<>>
    /\ IDENTIFIER = 0
    /\ heap = create_global_frame
    /\ stack = <<>>
    /\ pc = "repl"
    /\ expr = nil
    /\ success = FALSE
    /\ out = <<>>
    /\ sols = <<>>
    /\ uses = <<>>
    /\ nforms = 0
    /\ ucall = NoCall
    /\ ev = NoEval

\* scheme.py:418-421  a form is read and scheme_eval(expression, env) is
\* called with the global frame: the activation, at depth 1, is about to
\* make its first pass
ReplRead(form) ==
    /\ pc = "repl"
    /\ nforms < MaxForms
    /\ pc' = "eval"
    /\ expr' = form
    /\ nforms' = nforms + 1
    /\ out' = <<>>
    /\ ev' = [form |-> form, x |-> form, env |-> 1, res |-> "again", val |-> None,
              maxd |-> 1, passes |-> 0, pre |-> heap]
    /\ UNCHANGED <<facts, IDENTIFIER, heap, stack, success, sols, uses, ucall>>

\* scheme.py:363-405  one pass of the loop of the activation the
\* read-eval-print loop called; when it returns or raises, scheme.py:422-425:
\* a value other than None is printed, a SchemeError is caught and printed,
\* and another exception ends the read-eval-print loop.
EvalPass ==
    /\ pc = "eval"
    /\ \E r \in {eval_pass(World(heap, ev.maxd), ev.x, ev.env, 1)} :
        /\ heap' = r.m.heap
        /\ ev' = IF r.res = "again"
                 THEN [ev EXCEPT !.x = r.val, !.env = r.env, !.maxd = r.m.maxd,
                                 !.passes = @ + 1]
                 ELSE [ev EXCEPT !.res = r.res, !.val = r.val, !.maxd = r.m.maxd,
                                 !.passes = @ + 1]
        /\ out' = IF r.res = "ok" /\ r.val # None THEN <<<<"value", r.val>>>>
                  ELSE IF r.res = "SchemeError" THEN <<<<"Error:", r.val>>>>
                  ELSE <<>>
        /\ pc' = IF r.res = "again" THEN "eval"
                 ELSE IF r.res \in {"ok", "SchemeError"} THEN "repl"
                 ELSE "crashed"
    /\ UNCHANGED <<facts, IDENTIFIER, stack, expr, success, sols, uses, nforms,
                   ucall>>

\* scheme.py:426-427  end of input
ReplEnd ==
    /\ pc = "repl"
    /\ pc' = "done"
    /\ UNCHANGED <<facts, IDENTIFIER, heap, stack, expr, success, out, sols, uses,
                   nforms, ucall, ev>>

NextEval ==
    \/ \E form \in FormPool : ReplRead(form)
    \/ EvalPass
    \/ ReplEnd

SpecEval == InitEval /\ [][NextEval]_vars

-----------------------------------------------------------------------------
(* Sessions of the read-eval-print loop about scope *)

sym_x == Sym(<<"x">>)
sym_lf == Sym(<<"l", "f">>)
sym_mf == Sym(<<"m", "f">>)

\* (let ((x k)) body)
LetX(k, body) == List(<<kw_let, List(<<List(<<sym_x, Num(k)>>)>>), body>>)

\* (define x 1)
DefineX == List(<<kw_define, sym_x, Num(1)>>)
\* (define lf (lambda () x)) and (define mf (mu () x)), made in the global
\* frame
DefineLf == List(<<kw_define, sym_lf, List(<<kw_lambda, nil, sym_x>>)>>)
DefineMf == List(<<kw_define, sym_mf, List(<<kw_mu, nil, sym_x>>)>>)
\* (define lf (let ((x 1)) (lambda () x))) and the same with mu: the
\* procedure is made in a frame where x is 1
DefineLfLet == List(<<kw_define, sym_lf, LetX(1, List(<<kw_lambda, nil, sym_x>>))>>)
DefineMfLet == List(<<kw_define, sym_mf, LetX(1, List(<<kw_mu, nil, sym_x>>))>>)
\* (let ((x 2)) (lf)) and (let ((x 2)) (mf)): the call is made where x is 2
CallLf2 == LetX(2, List(<<sym_lf>>))
CallMf2 == LetX(2, List(<<sym_mf>>))

ScopePool ==
    {DefineX, DefineLf, DefineMf, DefineLfLet, DefineMfLet, CallLf2, CallMf2,
     List(<<sym_lf>>), List(<<sym_mf>>)}

NextScope ==
    \/ \E form \in ScopePool : ReplRead(form)
    \/ EvalPass
    \/ ReplEnd

SpecScope == InitEval /\ [][NextScope]_vars

-----------------------------------------------------------------------------
(* Sessions of the read-eval-print loop about the control forms *)

\* The operands of the and and or forms read: literals, which evaluate to
\* themselves.
Literals == {Num(5), Bool(FALSE), Bool(TRUE)}
MaxOperands == 2
OperandLists == UNION {[1..n -> Literals] : n \in 0..MaxOperands}

AndForm(ops) == Pair(kw_and, List(ops))
OrForm(ops) == Pair(kw_or, List(ops))
AndOrPool == {AndForm(ops) : ops \in OperandLists} \cup {OrForm(ops) : ops \in OperandLists}

\* (cond (t1 7) ... (tn 7)) for the tests ts, literals
CondClauses(ts) == List([j \in 1..Len(ts) |-> List(<<ts[j], Num(7)>>)])
CondForm(ts) == Pair(kw_cond, CondClauses(ts))
\* The same with a last clause (else 7)
CondElseForm(ts) ==
    Pair(kw_cond, List([j \in 1..Len(ts) |-> List(<<ts[j], Num(7)>>)]
                           \o <<List(<<kw_else, Num(7)>>)>>))
CondPool == {CondForm(ts) : ts \in OperandLists} \cup {CondElseForm(ts) : ts \in OperandLists}

ControlPool == AndOrPool \cup CondPool

NextControl ==
    \/ \E form \in ControlPool : ReplRead(form)
    \/ EvalPass
    \/ ReplEnd

SpecControl == InitEval /\ [][NextControl]_vars

(* Sessions of the read-eval-print loop with forms that raise errors *)

sym_zz == Sym(<<"z", "z">>)
\* zz, a name with no binding
ErrUnbound == sym_zz
\* (if 1): too few operands
ErrTooFew == List(<<kw_if, Num(1)>>)
\* (quote 1 2): too many operands
ErrTooMany == List(<<kw_quote, Num(1), Num(2)>>)
\* (5 1): the operator is not a procedure
ErrNotProcedure == List(<<Num(5), Num(1)>>)
\* (+ 1): a primitive applied to the wrong number of arguments
ErrPrimitiveArity == List(<<sym_plus, Num(1)>>)
\* (cond 5): a clause that is not a list
ErrClauseNotList == List(<<kw_cond, Num(5)>>)
\* (let (5) 1): a binding that is not a list
ErrBindingNotList == List(<<kw_let, List(<<Num(5)>>), Num(1)>>)

ErrorForms ==
    {ErrUnbound, ErrTooFew, ErrTooMany, ErrNotProcedure, ErrPrimitiveArity,
     ErrClauseNotList, ErrBindingNotList}
ErrorPool == ErrorForms \cup {Num(5), DefineX, sym_x}

NextErrors ==
    \/ \E form \in ErrorPool : ReplRead(form)
    \/ EvalPass
    \/ ReplEnd

SpecErrors == InitEval /\ [][NextErrors]_vars

-----------------------------------------------------------------------------
(* Sessions of the read-eval-print loop that call closures of two formals *)

sym_pa == Sym(<<"a">>)
sym_pb == Sym(<<"b">>)
sym_h == Sym(<<"h">>)
sym_mh == Sym(<<"m", "h">>)
\* (define h (lambda (a b) b)) and (define mh (mu (a b) b))
DefineH == List(<<kw_define, sym_h, List(<<kw_lambda, List(<<sym_pa, sym_pb>>), sym_pb>>)>>)
DefineMh == List(<<kw_define, sym_mh, List(<<kw_mu, List(<<sym_pa, sym_pb>>), sym_pb>>)>>)

MaxArgs == 3
\* The argument lists 1 ... n
Args(n) == [j \in 1..n |-> Num(j)]
\* (p 1 ... n)
CallWith(p, n) == Pair(p, List(Args(n)))
ArityPool ==
    {DefineH, DefineMh} \cup {CallWith(p, n) : p \in {sym_h, sym_mh}, n \in 0..MaxArgs}

NextArity ==
    \/ \E form \in ArityPool : ReplRead(form)
    \/ EvalPass
    \/ ReplEnd

SpecArity == InitEval /\ [][NextArity]_vars

-----------------------------------------------------------------------------
(* Sessions of the read-eval-print loop with an operand that has an effect *)

sym_c == Sym(<<"c">>)
\* (define c 0)
DefineC == List(<<kw_define, sym_c, Num(0)>>)
\* (begin (define c (+ c 1)) test): adds one to c, then has the value of test
Counting(test) ==
    List(<<kw_begin, List(<<kw_define, sym_c, List(<<sym_plus, sym_c, Num(1)>>)>>), test>>)
\* (= c 1): true after the first addition only
IsOne == List(<<sym_eq, sym_c, Num(1)>>)
\* (= c 2)
IsTwo == List(<<sym_eq, sym_c, Num(2)>>)

\* Forms in which the counting operand occurs once
AndStops == List(<<kw_and, Counting(IsTwo), Num(7)>>)
AndLast == List(<<kw_and, Num(7), Counting(sym_c)>>)
AndOnly == List(<<kw_and, Counting(sym_c)>>)
OrStops == List(<<kw_or, Counting(sym_c), Num(7)>>)
OrLast == List(<<kw_or, Bool(FALSE), Counting(sym_c)>>)
CondTestOnly == List(<<kw_cond, List(<<Counting(sym_c)>>)>>)
CondWithBody == List(<<kw_cond, List(<<Counting(IsOne), Num(7)>>)>>)
IfTest == List(<<kw_if, Counting(IsOne), Num(7), Num(8)>>)

CountingForms ==
    {AndStops, AndLast, AndOnly, OrStops, OrLast, CondTestOnly, CondWithBody, IfTest}
EffectPool == CountingForms \cup {DefineC, sym_c}

NextEffects ==
    \/ \E form \in EffectPool : ReplRead(form)
    \/ EvalPass
    \/ ReplEnd

SpecEffects == InitEval /\ [][NextEffects]_vars

-----------------------------------------------------------------------------
(* Sessions of the logic interpreter that run a query more than once *)

holds == Sym(<<"p">>)
wrap == Sym(<<"f">>)
\* (fact (p (f ?y)))
FactNested == List(<<List(<<holds, List(<<wrap, var_y>>)>>)>>)
\* (query (p ?x))
QueryNested == List(<<List(<<holds, var_x>>)>>)

RerunPool ==
    {Pair(kw_fact, c) : c \in {FactNested, FactParent1}}
      \cup {Pair(kw_query, g) : g \in {QueryNested, QueryParents}}
      \cup {List(<<kw_foo>>)}

NextRerun ==
    \/ \E e \in RerunPool : ProcessFact(e, MaxFacts)
    \/ \E e \in RerunPool : ProcessQuery(e, MaxQueries)
    \/ \E e \in RerunPool : ProcessOther(e)
    \/ QueryStep(TryLimit(MaxFacts, MaxQueries))

SpecRerun == Init /\ [][NextRerun]_vars

-----------------------------------------------------------------------------
(* Sessions of the logic interpreter whose query names a variable ?x_1 *)

var_x_1 == Sym(<<"?", "x", "_", "1">>)
var_z == Sym(<<"?", "z">>)
\* (fact (p ?x a))
FactPair == List(<<List(<<holds, var_x, sym_a>>)>>)
\* (query (p b ?x_1)) and (query (p b ?z))
QuerySuffixed == List(<<List(<<holds, sym_b, var_x_1>>)>>)
QueryPlain == List(<<List(<<holds, sym_b, var_z>>)>>)

CapturePool ==
    {Pair(kw_fact, c) : c \in {FactPair, FactParent1}}
      \cup {Pair(kw_query, g) : g \in {QuerySuffixed, QueryPlain}}
      \cup {List(<<kw_foo>>)}

NextCapture ==
    \/ \E e \in CapturePool : ProcessFact(e, MaxFacts)
    \/ \E e \in CapturePool : ProcessQuery(e, MaxQueries)
    \/ \E e \in CapturePool : ProcessOther(e)
    \/ QueryStep(TryLimit(MaxFacts, MaxQueries))

SpecCapture == Init /\ [][NextCapture]_vars

-----------------------------------------------------------------------------
-----------------------------------------------------------------------------
(* Properties of unify, checked under SpecUnify *)

RECURSIVE Chain(_, _)
\* The frames of the parent chain of env, env included.
Chain(h, env) == IF env = 0 THEN {} ELSE {env} \cup Chain(h, h[env].parent)

\* C1: unify monotonicity.  After a call unify(a, b, env), whatever it
\* returned, every frame holds every binding it held before the call, with
\* the same value, and every binding added is in env, for a key that had no
\* binding in env or in any frame of its parent chain before the call.
C1_UnifyMonotonic ==
    ucall.n > 0 =>
        /\ Len(heap) = Len(ucall.pre)
        /\ \A k \in 1..Len(heap) :
            /\ heap[k].parent = ucall.pre[k].parent
            /\ \A key \in DOMAIN ucall.pre[k].bindings :
                /\ key \in DOMAIN heap[k].bindings
                /\ heap[k].bindings[key] = ucall.pre[k].bindings[key]
            /\ \A key \in DOMAIN heap[k].bindings \ DOMAIN ucall.pre[k].bindings :
                /\ k = ucall.env
                /\ ~Frame_lookup(ucall.pre, ucall.env, key).found

\* A call that returned False after it had added a binding to a frame whose
\* parent chain already held bindings.
C1_Witness ==
    /\ ucall.n > 0
    /\ ucall.res = "False"
    /\ DOMAIN heap[ucall.env].bindings # DOMAIN ucall.pre[ucall.env].bindings
    /\ \E k \in Chain(ucall.pre, ucall.env) : DOMAIN ucall.pre[k].bindings # {}

\* C2: unification symmetry.  unify(a, b, f) and unify(b, a, f'), f' a copy
\* of f, end the same way: both return True, both return False, or both
\* exhaust the interpreter's stack.
C2_UnifySymmetric == ucall.n > 0 => ucall.res = ucall.sres

\* A successful call on two different terms, one of them no variable, made on
\* a frame whose chain already held bindings, and which added a binding.
C2_Witness ==
    /\ ucall.n > 0
    /\ ucall.res = "True"
    /\ ucall.sres = "True"
    /\ ~isvar(ucall.a)
    /\ heap # ucall.pre
    /\ \E k \in Chain(ucall.pre, ucall.env) : DOMAIN ucall.pre[k].bindings # {}

-----------------------------------------------------------------------------
(* Properties of the query search and of process_input *)

IsQuery(e) == scheme_pairp(e) /\ first(e) \in {kw_query, kw_qmark}
IsFact(e) == scheme_pairp(e) /\ first(e) \in {kw_fact, kw_bang}

\* C3: freshness.  Each use of a fact draws an id that is larger than the id
\* of every earlier use of the session and renames every variable of the fact,
\* and the renamed variables of the use are disjoint from those of every
\* earlier use, of the same fact or of another one.  (uses only grows, one
\* record at a time, so holding in every state this covers any two uses.)
C3_Freshness ==
    uses # <<>> =>
        \E last \in {uses[Len(uses)]} :
            /\ last.id <= IDENTIFIER
            /\ Cardinality(last.vars)
                 = Cardinality(Range(get_vars(facts[last.fact])))
            /\ \A i \in 1..(Len(uses) - 1) :
                /\ uses[i].id < last.id
                /\ uses[i].vars \cap last.vars = {}

\* The same fact, one with variables, was used in two different queries and
\* twice in one of them.
C3_Witness ==
    /\ nforms = 2
    /\ \E i, j, k \in 1..Len(uses) :
        /\ i < j /\ j < k
        /\ uses[i].fact = uses[j].fact /\ uses[j].fact = uses[k].fact
        /\ uses[i].vars # {}
        /\ uses[j].id - uses[i].id = 1
        /\ uses[k].id - uses[j].id > 1

LoopScenario ==
    /\ facts = <<FactLoop>>
    /\ expr = Pair(kw_query, QueryLoop)

\* C4: depth-bounded termination.  Every query that is started ends; with the
\* single fact (loop ?x) :- (loop ?x), the query (loop a) ends with no
\* solution and the one line Failed.
C4_Terminates ==
    /\ (pc = "query") ~> (pc = "idle")
    /\ [](LoopScenario /\ pc = "idle" => sols = <<>> /\ out = <<<<"Failed.">>>>)

\* The query (loop a) has ended against the single self-referential fact,
\* after the search went down to the depth limit.
C4_Witness ==
    /\ LoopScenario
    /\ pc = "idle"
    /\ out = <<<<"Failed.">>>>
    /\ Len(heap) > DEPTH_LIMIT

\* C5: query output protocol.  While and after a query form is processed,
\* the lines printed are: nothing yet, or Success! followed by one binding
\* line per result yielded so far; and once the query has ended with no
\* result, the single line Failed.
C5_OutputProtocol ==
    IsQuery(expr) /\ pc \in {"query", "idle"} =>
        /\ success = (sols # <<>>)
        /\ IF sols = <<>>
           THEN out = IF pc = "idle" THEN <<<<"Failed.">>>> ELSE <<>>
           ELSE /\ Len(out) = Len(sols) + 1
                /\ out[1] = <<"Success!">>
                /\ \A j \in 2..Len(out) :
                    /\ out[j][1] = "line"
                    /\ Len(out[j][2]) = Len(sols[j - 1].bindings)

\* A query has ended after it yielded two results.
C5_Witness ==
    /\ IsQuery(expr)
    /\ pc = "idle"
    /\ Len(sols) = 2
    /\ Len(out) = 3

Pos(db, c) == IF c \in Range(db) THEN CHOOSE j \in 1..Len(db) : db[j] = c ELSE 0

BindingsOf(ss) == [j \in 1..Len(ss) |-> ss[j].bindings]

\* C7: solution order.  For a query with a single goal, a result derived from
\* an earlier-inserted fact is yielded before every result derived from a
\* later-inserted fact; the two parent facts answer (parent ?x ?y) in the
\* order in which they were asserted.
C7_SolutionOrder ==
    /\ IsQuery(expr) /\ scheme_len(second(expr)) = 1 =>
        \A i, j \in 1..Len(sols) :
            i < j => /\ Pos(facts, sols[i].fact) >= 1
                     /\ Pos(facts, sols[i].fact) <= Pos(facts, sols[j].fact)
    /\ expr = Pair(kw_query, QueryParents) /\ pc = "idle" =>
        /\ facts = <<FactParent1, FactParent2>> =>
             BindingsOf(sols) = << <<<<var_x, abe>>, <<var_y, homer>>>>,
                                   <<<<var_x, homer>>, <<var_y, bart>>>> >>
        /\ facts = <<FactParent2, FactParent1>> =>
             BindingsOf(sols) = << <<<<var_x, homer>>, <<var_y, bart>>>>,
                                   <<<<var_x, abe>>, <<var_y, homer>>>> >>

\* A single-goal query has ended with two results that came from two
\* different facts, the database holding a third fact between them.
C7_Witness ==
    /\ IsQuery(expr)
    /\ scheme_len(second(expr)) = 1
    /\ pc = "idle"
    /\ Len(sols) = 2
    /\ Pos(facts, sols[2].fact) - Pos(facts, sols[1].fact) = 2

GrandparentFacts == {FactParent1, FactParent2, FactGrandparent}

\* C8: rule chaining.  The query (grandparent abe ?who) has a result only
\* when the database holds the rule and both parent facts its hypotheses
\* need, and then it has exactly one, who: bart.
C8_RuleChaining ==
    expr = Pair(kw_query, QueryGrandparent) =>
        /\ \A j \in 1..Len(sols) :
            /\ sols[j].bindings = <<<<var_who, bart>>>>
            /\ GrandparentFacts \subseteq Range(facts)
        /\ Len(sols) <= 1
        /\ pc = "idle" /\ GrandparentFacts \subseteq Range(facts) =>
            /\ Len(sols) = 1
            /\ out = <<<<"Success!">>, <<"line", <<<<Tail(var_who[2]), bart>>>>>>>>

\* The grandparent query has ended with its result.
C8_Witness ==
    /\ expr = Pair(kw_query, QueryGrandparent)
    /\ pc = "idle"
    /\ Len(sols) = 1
    /\ Len(out) = 2

\* C9: the fact database is append-only.  Processing a fact form appends the
\* form's clause, as it was read, at the end of the database; every other
\* step (a query form, a step of the search, any other form) leaves the
\* database as it was.
C9_FactsAppendOnly ==
    [][IF pc = "idle" /\ IsFact(expr')
       THEN facts' = Append(facts, second(expr'))
       ELSE facts' = facts]_vars

\* A fact has been asserted after a query had renamed clauses of the database.
C9_Witness ==
    /\ pc = "idle"
    /\ IsFact(expr)
    /\ Len(facts) >= 2
    /\ \E j \in 1..Len(uses) : uses[j].vars # {}

-----------------------------------------------------------------------------
(* Properties of the evaluator, checked under SpecEval *)

\* The deepest nest of calls that evaluating (f 1 0) reaches, from the heap h.
DepthOfOneCall(h) == scheme_eval(World(h, 0), CallF(1), 1, 1).m.maxd

\* The procedures defined in the global frame of the heap h are all lexical
\* closures.
OnlyLexical(h) ==
    \A k \in DOMAIN h[1].bindings : h[1].bindings[k][1] # "mu"

\* C10: tail-call safety.  While and after (f n 0) is evaluated, f being a
\* lexical or a dynamic closure whose recursive call is in tail position
\* (directly, in the chosen branch of if or cond, as the last operand of
\* and/or/begin, as the last body expression of let), the stack is not
\* exhausted and the nest of calls of the evaluator is no deeper than the one
\* that evaluating (f 1 0) reaches: the depth does not grow with n.
C10_TailCallSafe ==
    \A n \in 1..MaxN :
        ev.form = CallF(n) =>
            /\ ev.res # "RecursionError"
            /\ ev.maxd <= DepthOfOneCall(ev.pre)

\* The running total of 1..MaxN was asked of the dynamic closure and the
\* evaluation ended in RecursionError, which ended the read-eval-print loop.
C10_Witness ==
    /\ ev.form = CallF(MaxN)
    /\ ~OnlyLexical(ev.pre)
    /\ ev.res = "RecursionError"
    /\ pc = "crashed"

\* The part of C10 that holds: with lexical closures only, the depth does not
\* grow with n, and the call returns the running total.
LexicalTailCallSafe ==
    \A n \in 1..MaxN :
        ev.form = CallF(n) /\ OnlyLexical(ev.pre) =>
            /\ ev.res # "RecursionError"
            /\ ev.maxd <= DepthOfOneCall(ev.pre)
            /\ pc = "repl" /\ ev.res = "ok" => ev.val = Num((n * (n + 1)) \div 2)

\* A lexical closure has returned the running total of 1..MaxN after MaxN
\* tail calls.
LexicalWitness ==
    /\ ev.form = CallF(MaxN)
    /\ OnlyLexical(ev.pre)
    /\ pc = "repl"
    /\ ev.res = "ok"
    /\ ev.passes > 2 * MaxN

-----------------------------------------------------------------------------
(* Properties of closures, checked under SpecScope *)

SpecialForms == LOGIC_FORMS \cup {kw_lambda, kw_mu, kw_define, kw_quote, kw_let}

\* What the operator of the expression at hand is bound to, the expression
\* being a call whose operator is a name.
Operator == Frame_lookup(heap, ev.env, first(ev.x))

\* The pass about to be made applies a closure that a name is bound to.
IsClosureCall ==
    /\ pc = "eval"
    /\ scheme_pairp(ev.x)
    /\ scheme_symbolp(first(ev.x))
    /\ first(ev.x) \notin SpecialForms
    /\ Operator.found
    /\ Operator.val[1] \in {"lambda", "mu"}

\* C11: lexical versus dynamic scope.  Every pass that applies a closure goes
\* on with the closure's body in a frame made by that pass, whose parent is
\* the frame the closure captured when it was made (lambda) or the frame in
\* which the call is evaluated (mu).  Called where x is 2, the lambda
\* procedure made where x is 1 returns 1 and the mu procedure returns 2.
C11_Scope ==
    /\ [][IsClosureCall /\ ev'.res = "again" =>
            /\ ev'.x = Operator.val[3]
            /\ ev'.env = Len(heap')
            /\ ev'.env > Len(heap)
            /\ heap'[ev'.env].parent =
                 IF Operator.val[1] = "lambda" THEN Operator.val[4] ELSE ev.env]_vars
    /\ [](pc = "repl" /\ ev.res = "ok" =>
            /\ ev.form = CallLf2 => ev.val = Num(1)
            /\ ev.form = CallMf2 => ev.val = Num(2))

\* With x bound to 1 in the global frame, where lf and mf were made, the call
\* of mf made where x is 2 has returned 2.
C11_Witness ==
    /\ pc = "repl"
    /\ ev.form = CallMf2
    /\ ev.res = "ok"
    /\ ev.val = Num(2)
    /\ Frame_lookup(ev.pre, 1, sym_x).found
    /\ Frame_lookup(ev.pre, 1, sym_x).val = Num(1)
    /\ Frame_lookup(ev.pre, 1, sym_mf) = [found |-> TRUE, val |-> MuProcedure(nil, sym_x)]

-----------------------------------------------------------------------------
(* Properties of the control forms, checked under SpecControl *)

\* The positions of the operands ops that are false-ish, and those that are
\* true-ish.
FalseAt(ops) == {j \in 1..Len(ops) : scheme_false(ops[j])}
TrueAt(ops) == {j \in 1..Len(ops) : scheme_true(ops[j])}
Least(S) == CHOOSE j \in S : \A k \in S : j <= k

\* C12: value of and/or.  (and e1 ... en), n >= 1, evaluates to the value of
\* the first false-ish operand or, all being true-ish, to the value of en;
\* (or e1 ... en) evaluates to the value of the first true-ish operand or
\* else to the value of en; (and) is true-ish and (or) is false-ish.
C12_AndOrValue ==
    pc = "repl" =>
        \A ops \in OperandLists :
            /\ ev.form = AndForm(ops) =>
                /\ ev.res = "ok"
                /\ ev.val = IF ops = <<>> THEN Bool(TRUE)
                            ELSE IF FalseAt(ops) # {} THEN ops[Least(FalseAt(ops))]
                            ELSE ops[Len(ops)]
            /\ ev.form = OrForm(ops) =>
                /\ ev.res = "ok"
                /\ ev.val = IF ops = <<>> THEN Bool(FALSE)
                            ELSE IF TrueAt(ops) # {} THEN ops[Least(TrueAt(ops))]
                            ELSE ops[Len(ops)]

\* (and 5) has been evaluated, to the boolean true.
C12_Witness ==
    /\ pc = "repl"
    /\ ev.form = AndForm(<<Num(5)>>)
    /\ ev.res = "ok"
    /\ ev.val = Bool(TRUE)

\* C13: cond with no matching clause.  A cond form with no else clause in
\* which no test is true-ish evaluates without error to an empty result:
\* nothing is printed.
C13_CondNoMatch ==
    pc \in {"repl", "crashed"} =>
        \A ts \in OperandLists :
            ev.form = CondForm(ts) /\ TrueAt(ts) = {} =>
                /\ ev.res = "ok"
                /\ ev.val = None
                /\ out = <<>>

\* (cond (#f 7)) has been evaluated: an error was raised and reported.
C13_Witness ==
    /\ pc = "repl"
    /\ ev.form = CondForm(<<Bool(FALSE)>>)
    /\ ev.res = "SchemeError"
    /\ out = <<<<"Error:", "Cannot evaluate an undefined expression.">>>>

\* C14: top-level error recovery.  Every error raised while a form is
\* processed is caught by the read-eval-print loop, which prints exactly one
\* Error line and goes on reading: the loop never ends because of an error.
C14_ErrorRecovery ==
    /\ pc # "crashed"
    /\ pc = "repl" /\ ev.form \in ErrorForms =>
           /\ ev.res = "SchemeError"
           /\ Len(out) = 1
           /\ out[1][1] = "Error:"

\* (cond 5) has been evaluated: check_form raised an exception the loop
\* does not catch, and the loop has ended.
C14_Witness ==
    /\ pc = "crashed"
    /\ ev.form = ErrClauseNotList
    /\ ev.res = "Exception"
    /\ out = <<>>

\* C15: closure arity.  Applying a lexical or dynamic closure of two
\* formals to an argument list of another length is reported as an error,
\* and a call frame exists only with every formal bound: no frame is left
\* with a formal missing, and no call with an argument too many returns a
\* value.
C15_ClosureArity ==
    /\ pc \in {"repl", "crashed"} =>
           \A p \in {sym_h, sym_mh}, n \in 0..MaxArgs :
               ev.form = CallWith(p, n) /\ n # 2 =>
                   /\ ev.res = "SchemeError"
                   /\ Len(out) = 1
                   /\ out[1][1] = "Error:"
    /\ \A i \in 2..Len(heap) : DOMAIN heap[i].bindings = {sym_pa, sym_pb}

\* (h 1 2 3) has returned 2 from a frame binding a and b: the argument 3
\* was dropped.
C15_Witness ==
    /\ pc = "repl"
    /\ ev.form = CallWith(sym_h, 3)
    /\ ev.res = "ok"
    /\ ev.val = Num(2)
    /\ heap[Len(heap)].bindings = (sym_pa :> Num(1)) @@ (sym_pb :> Num(2))

\* (mh 1) has ended the loop with AttributeError, leaving a frame that
\* binds a only.
C15_TooFew ==
    /\ pc = "crashed"
    /\ ev.form = CallWith(sym_mh, 1)
    /\ ev.res = "AttributeError"
    /\ DOMAIN heap[Len(heap)].bindings = {sym_pa}

\* A step of the search
QuerySteps == pc = "query" /\ pc' \in {"query", "crashed"}

\* The step tries a fact: a renaming id is drawn.
TriesFact == QuerySteps /\ IDENTIFIER' # IDENTIFIER

\* C16: backtracking isolation.  No step of query adds or changes a binding
\* in a frame that exists; each fact attempt creates one frame, a child of
\* the frame of the activation making the attempt, and writes only there;
\* an attempt whose unification fails starts no activation, yields no
\* solution, and leaves its frame unreferenced.
C16_Isolation ==
    [][/\ QuerySteps =>
           /\ Len(heap') >= Len(heap)
           /\ SubSeq(heap', 1, Len(heap)) = heap
       /\ QuerySteps /\ ~TriesFact => heap' = heap
       /\ TriesFact =>
           /\ Len(heap') = Len(heap) + 1
           /\ heap'[Len(heap')].parent = Top.env
           /\ Len(stack') <= Len(stack) =>
                 /\ sols' = sols
                 /\ \A k \in 1..Len(stack') : stack'[k].env # Len(heap')]_vars

\* The first fact tried for (parent ?x bart) failed after binding ?x, and the
\* second fact is tried against the same goal in a frame where ?x is free.
C16_Witness ==
    /\ pc = "query"
    /\ expr = Pair(kw_query, QueryChild)
    /\ Len(stack) = 2
    /\ stack[1].i = 3
    /\ Len(heap) = 3
    /\ var_x \in DOMAIN heap[2].bindings
    /\ heap[3].parent = 1
    /\ heap[3].bindings = (var_x :> homer)

ResolvedA == bind(heap, ucall.a, ucall.env, RecursionLimit)
ResolvedB == bind(heap, ucall.b, ucall.env, RecursionLimit)

\* C18: unification soundness.  When unify(a, b, f) has returned True and
\* resolving a and b through f ends (no variable is bound to a term that
\* contains it), the two resolved terms are equal and no variable in them
\* has a binding in the chain of f.
C18_UnifySound ==
    ucall.n > 0 /\ ucall.res = "True" /\ ResolvedA # Raised /\ ResolvedB # Raised =>
        /\ ResolvedA = ResolvedB
        /\ \A v \in Range(get_vars(ResolvedA)) :
               ~Frame_lookup(heap, ucall.env, v).found

\* A successful call on two different pairs that added a binding to a frame
\* whose chain held bindings, and whose resolved terms still hold a variable.
C18_Witness ==
    /\ ucall.n > 1
    /\ ucall.res = "True"
    /\ scheme_pairp(ucall.a)
    /\ scheme_pairp(ucall.b)
    /\ ucall.a # ucall.b
    /\ heap # ucall.pre
    /\ ResolvedA # Raised
    /\ ResolvedA = ResolvedB
    /\ ResolvedA # ucall.a
    /\ Range(get_vars(ResolvedA)) # {}

\* The value of c in the global frame of the heap h, -1 when c has no binding
CounterIn(h) ==
    IF h # <<>> /\ sym_c \in DOMAIN h[1].bindings THEN h[1].bindings[sym_c][2] ELSE -1

\* C19: single evaluation of control-form operands.  During the evaluation
\* of an and, or, cond or if form in which an operand that adds one to c
\* occurs once, c grows by one at most.
C19_SingleEvaluation ==
    ev.form \in CountingForms /\ CounterIn(ev.pre) >= 0 =>
        CounterIn(heap) <= CounterIn(ev.pre) + 1

\* (or (begin (define c (+ c 1)) c) 7) was evaluated with c = 0: its value
\* is 2 and c is 2.
C19_Witness ==
    /\ pc = "repl"
    /\ ev.form = OrStops
    /\ ev.res = "ok"
    /\ CounterIn(ev.pre) = 0
    /\ CounterIn(heap) = 2
    /\ ev.val = Num(2)

\* What (query (p ?x)) prints on the database ((p (f ?y))) when the renaming
\* counter is n at its start: the one fact is renamed with n + 1 and unified
\* with the goal in a child of the root frame, and the result is printed.
OutputAtCounter(n) ==
    LET fact == label(FactNested, get_unique_id(n))
        r == unify(NewFrame(NewFrame(<<>>, 0), 1), first(fact), first(QueryNested),
                   2, RecursionLimit)
    IN  print_result(<<>>, FALSE, do_query_result(r.heap, QueryNested, 2))

\* C20: query results do not depend on the renaming counter.  Whatever the
\* counter is when it starts, (query (p ?x)) on the database ((p (f ?y)))
\* prints the lines it prints in a session whose counter is 0.
C20_CounterIndependent ==
    pc = "idle" /\ expr = Pair(kw_query, QueryNested) /\ facts = <<FactNested>> =>
        out = OutputAtCounter(0)

\* The query was run a second time in a row on the same database, the
\* counter being 1 at its start, and printed other lines than the first
\* time.
C20_Witness ==
    /\ pc = "idle"
    /\ expr = Pair(kw_query, QueryNested)
    /\ facts = <<FactNested>>
    /\ nforms = 2
    /\ IDENTIFIER = 2
    /\ out = OutputAtCounter(1)
    /\ out # OutputAtCounter(0)

\* The variables of the goals of the query being processed
QueryVars == Range(get_vars(second(expr)))

\* C21: no capture of query variables by renaming.  While a query is
\* searched, the variables the last renaming of a fact produced are none of
\* the variables of the query's goals; and (query (p b ?x_1)) on the database
\* ((p ?x a)) succeeds, as (query (p b ?z)) does.
C21_NoCapture ==
    /\ pc = "query" /\ Len(heap) > 1 =>
           uses[Len(uses)].vars \cap QueryVars = {}
    /\ pc = "idle" /\ IsQuery(expr) /\ facts = <<FactPair>>
         /\ second(expr) \in {QuerySuffixed, QueryPlain} =>
           /\ Len(out) = 2
           /\ out[1] = <<"Success!">>
           /\ out[2][2][1][2] = sym_a

\* The first query of the session, (query (p b ?x_1)) on ((p ?x a)), has
\* ended: the fact was renamed to (p ?x_1 a), ?x_1 was bound to b, a did not
\* unify with b, and Failed. was printed.
C21_Witness ==
    /\ pc = "idle"
    /\ expr = Pair(kw_query, QuerySuffixed)
    /\ facts = <<FactPair>>
    /\ uses = <<[fact |-> 1, id |-> 1, vars |-> {var_x_1}]>>
    /\ heap[2].bindings = (var_x_1 :> sym_b)
    /\ out = <<<<"Failed.">>>>
====
